---- MODULE Spec2Model ----
(***************************************************************************)
(* YIN pitch detector (src/wasm/pitch-detector/src/lib.rs).                *)
(*                                                                         *)
(* The four exported functions are pure; a behaviour of this module is one *)
(* call: the entry action draws the sample buffer, the following actions   *)
(* are the steps of the function body in source order, and the call ends   *)
(* at pc = "done" with the returned value in result, or at pc = "panic"    *)
(* when an index leaves its array or a usize subtraction goes below zero.  *)
(*                                                                         *)
(* f32 values are modelled as exact rationals [k |-> "fin", n, d] (d > 0,  *)
(* lowest terms), so rounding is not modelled; the IEEE results of a       *)
(* division by zero are kept ("inf", "nan").  The arguments threshold and  *)
(* sample_rate are bound by the action of the first line that reads them   *)
(* (line 67 and line 99/145): no earlier line depends on them, so the set  *)
(* of calls is the same as when they are bound on entry.                   *)
(***************************************************************************)
EXTENDS Integers, Sequences, FiniteSets, TLC

\* ------------------------------------------------------------------ bounds
\* every buffer over Amplitudes of length 0..MaxLen is an input
MaxLen == 6
\* longer inputs, up to this length, repeat a pattern and change one sample
MaxLongLen == 10
\* the longest repeated pattern
MaxPeriod == 3
\* the longest sine buffer
MaxSineLen == 16

\* sample numerators and denominators: a sample is a / u
Amplitudes == {-1, 0, 1}
Units == {1, 100, 4096}
SampleRates == {120, 1000, 4000, 44100}
\* thresholds as <<numerator, denominator>>: 0.1, 0.5, 0.9, 1, 2
Thresholds == {<<1, 10>>, <<1, 2>>, <<9, 10>>, <<1, 1>>, <<2, 1>>}

\* ------------------------------------------------------- f32 as rationals
Abs(x) == IF x < 0 THEN -x ELSE x

RECURSIVE GCD(_, _)
GCD(a, b) == IF b = 0 THEN a ELSE GCD(b, a % b)

\* the finite value n / d, d # 0
Fin(n, d) ==
    LET g == GCD(Abs(n), Abs(d))
        s == IF d < 0 THEN -1 ELSE 1
    IN [k |-> "fin", n |-> (s * n) \div g, d |-> (s * d) \div g]

F(n) == [k |-> "fin", n |-> n, d |-> 1]
NaN == [k |-> "nan", n |-> 0, d |-> 0]
PosInf == [k |-> "inf", n |-> 1, d |-> 0]
NegInf == [k |-> "inf", n |-> -1, d |-> 0]
\* the value of a variable the call has not assigned yet
Unset == [k |-> "unset", n |-> 0, d |-> 0]

IsFin(a) == a.k = "fin"

\* sums over the least common denominator, which keeps the integers small
FAdd(a, b) ==
    IF IsFin(a) /\ IsFin(b)
    THEN LET g == GCD(a.d, b.d)
         IN Fin(a.n * (b.d \div g) + b.n * (a.d \div g), (a.d \div g) * b.d)
    ELSE NaN
FNeg(a) == [a EXCEPT !.n = -a.n]
FSub(a, b) == FAdd(a, FNeg(b))
\* products cancel common factors first, for the same reason
FMul(a, b) ==
    IF IsFin(a) /\ IsFin(b)
    THEN LET g == GCD(Abs(a.n), b.d)
             h == GCD(Abs(b.n), a.d)
         IN Fin((a.n \div g) * (b.n \div h), (a.d \div h) * (b.d \div g))
    ELSE NaN
FAbs(a) == [a EXCEPT !.n = Abs(a.n)]

\* IEEE division of finite values: x/0 is an infinity, 0/0 is NaN
FDiv(a, b) ==
    IF ~(IsFin(a) /\ IsFin(b)) THEN NaN
    ELSE IF b.n # 0 THEN FMul(a, Fin(b.d, b.n))
    ELSE IF a.n > 0 THEN PosInf
    ELSE IF a.n < 0 THEN NegInf
    ELSE NaN

\* the largest r with r * r <= n, for 0 <= n, by bisection (46340^2 < 2^31)
RECURSIVE ISqrtIn(_, _, _)
ISqrtIn(n, lo, hi) ==
    IF lo >= hi THEN lo
    ELSE LET mid == (lo + hi + 1) \div 2
         IN IF mid * mid <= n THEN ISqrtIn(n, mid, hi) ELSE ISqrtIn(n, lo, mid - 1)

ISqrt(n) == ISqrtIn(n, 0, IF n < 46340 THEN n ELSE 46340)
IsSquare(n) == ISqrt(n) * ISqrt(n) = n

\* f32::sqrt: the non-negative root; an irrational root of n/d is kept as the
\* value [k |-> "sqrt", n, d], whose square is n/d
FSqrt(a) ==
    IF ~IsFin(a) \/ a.n < 0 THEN NaN
    ELSE IF IsSquare(a.n) /\ IsSquare(a.d) THEN Fin(ISqrt(a.n), ISqrt(a.d))
    ELSE [k |-> "sqrt", n |-> a.n, d |-> a.d]

\* a < b; every comparison with a NaN is false
FLess(a, b) ==
    CASE a.k = "nan" \/ b.k = "nan" -> FALSE
      [] a.k = "sqrt" /\ IsFin(b) -> b.n > 0 /\ a.n * b.d * b.d < b.n * b.n * a.d
      [] IsFin(a) /\ b.k = "sqrt" -> a.n < 0 \/ a.n * a.n * b.d < b.n * a.d * a.d
      [] a.k = "inf" /\ b.k = "inf" -> a.n < b.n
      [] a.k = "inf" -> a.n < 0
      [] b.k = "inf" -> b.n > 0
      [] OTHER -> LET g == GCD(a.d, b.d) IN a.n * (b.d \div g) < b.n * (a.d \div g)

\* f32::EPSILON = 2^-23
EPSILON_DEN == 8388608
\* a < f32::EPSILON and a > f32::EPSILON for a finite a (no product that overflows)
BelowEpsilon(a) == IsFin(a) /\ a.n <= (a.d - 1) \div EPSILON_DEN
AboveEpsilon(a) == IsFin(a) /\ a.n > a.d \div EPSILON_DEN

\* f32::clamp(lo, hi): a NaN stays a NaN
FClamp(a, lo, hi) ==
    IF a.k = "nan" THEN a ELSE IF FLess(a, lo) THEN lo ELSE IF FLess(hi, a) THEN hi ELSE a

\* `x as usize` of an f32: truncation, saturating at 0, NaN to 0
AsUsize(a) == IF IsFin(a) /\ a.n > 0 THEN a.n \div a.d ELSE 0

Zero == F(0)
One == F(1)

\* ------------------------------------------------------------- constants
MIN_FREQUENCY == 60
MAX_FREQUENCY == 2000
DEFAULT_THRESHOLD == Fin(1, 10)
\* the sentinel: no pitch detected
NO_PITCH == F(-1)
\* Option<usize>::None
None == -1

\* ---------------------------------------------------------------- inputs
Buffer(n, u, a) == [i \in 0..(n - 1) |-> Fin(a[i], u)]

\* pattern p of length P repeated to length n, sample j set to v
LongBuffer(n, P, p, j, v) == [i \in 0..(n - 1) |-> F(IF i = j THEN v ELSE p[i % P])]

\* the tests' generate_sine_wave(frequency, sample_rate, duration_samples) for
\* sample_rate = 4 * frequency: sin(2 * PI * i / 4) is 0, 1, 0, -1, ...
generate_sine_wave(duration_samples) ==
    [i \in 0..(duration_samples - 1) |->
        F(CASE i % 4 = 0 -> 0 [] i % 4 = 1 -> 1 [] i % 4 = 2 -> 0 [] OTHER -> -1)]

\* ----------------------------------------------------------------- state
VARIABLES fn, pc, samples, sample_rate, threshold, rms, difference, cmndf,
          tau_estimate, better_tau, zero_lag_correlation, max_correlation, result

vars == <<fn, pc, samples, sample_rate, threshold, rms, difference, cmndf,
          tau_estimate, better_tau, zero_lag_correlation, max_correlation, result>>

Length(s) == Cardinality(DOMAIN s)

\* arr[i]; an index outside the array is a panic, reported by the *InBounds
\* predicates, and reads as 0 here
At(arr, i) == IF i \in DOMAIN arr THEN arr[i] ELSE Zero

\* ---------------------------------------------------------- calculate_rms
RECURSIVE SumSquares(_, _)
\* samples.iter().map(|&x| x * x).sum() over the first n samples
SumSquares(s, n) ==
    IF n = 0 THEN Zero ELSE FAdd(SumSquares(s, n - 1), FMul(s[n - 1], s[n - 1]))

\* the mean square, the root forgotten
calculate_rms_NoRoot(s) ==
    IF Length(s) = 0 THEN Zero
    ELSE FDiv(SumSquares(s, Length(s)), F(Length(s)))

calculate_rms(s) ==
    IF Length(s) = 0 THEN Zero
    ELSE FSqrt(FDiv(SumSquares(s, Length(s)), F(Length(s))))

\* let half_buffer_size = buffer_size / 2
half_buffer_size(s) == Length(s) \div 2

\* ------------------------------------------- detect_pitch_with_threshold
\* the length check off by one
TooShort_One(buffer_size) == buffer_size < 1

\* if buffer_size < 2 { return -1.0 }
TooShort(buffer_size) == buffer_size < 2

\* the gate at 0.001
TooQuiet_Thousandth(r) == FLess(r, Fin(1, 1000))

\* if rms < 0.01 { return -1.0 }
TooQuiet(r) == FLess(r, Fin(1, 100))

RECURSIVE DifferenceSum(_, _, _)
\* the inner loop of step 1 over i in 0..n: sum += delta * delta
DifferenceSum(s, tau, n) ==
    IF n = 0 THEN Zero
    ELSE LET delta == FSub(At(s, n - 1), At(s, n - 1 + tau))
         IN FAdd(DifferenceSum(s, tau, n - 1), FMul(delta, delta))

\* Step 1: difference[tau] for tau in 0..half_buffer_size
DifferenceFunction(s) ==
    [tau \in 0..(half_buffer_size(s) - 1) |-> DifferenceSum(s, tau, half_buffer_size(s))]

\* every samples[i + tau] of step 1 is inside the buffer
Step1InBounds(s) ==
    \A tau \in 0..(half_buffer_size(s) - 1) : \A i \in 0..(half_buffer_size(s) - 1) :
        i + tau < Length(s)

RECURSIVE RunningSum(_, _)
\* running_sum after the iteration for tau: difference[1] + ... + difference[tau]
RunningSum(d, tau) ==
    IF tau = 0 THEN Zero ELSE FAdd(RunningSum(d, tau - 1), At(d, tau))

\* the difference times the lag, not divided by the running sum
CmndfAt_NoNormalization(d, tau) == FMul(At(d, tau), F(tau))

\* the body of the loop of step 2
CmndfAt(d, tau) ==
    IF FLess(Zero, RunningSum(d, tau))
    THEN FDiv(FMul(At(d, tau), F(tau)), RunningSum(d, tau))
    ELSE One

\* Step 2: cmndf[0] = 1.0, then the loop over tau in 1..half_buffer_size
CumulativeMeanNormalizedDifference(d) ==
    [tau \in DOMAIN d |-> IF tau = 0 THEN One ELSE CmndfAt(d, tau)]

\* cmndf[0] = 1.0 writes index 0 of a vector of half_buffer_size elements
Step2InBounds(d) == 0 \in DOMAIN d

\* no descent: the first lag below the threshold is kept
LocalMinimum_Stay(c, min_tau) == min_tau

RECURSIVE LocalMinimum(_, _)
\* while min_tau + 1 < half_buffer_size && cmndf[min_tau + 1] < cmndf[min_tau]
LocalMinimum(c, min_tau) ==
    IF min_tau + 1 < Length(c) /\ FLess(At(c, min_tau + 1), At(c, min_tau))
    THEN LocalMinimum(c, min_tau + 1)
    ELSE min_tau

\* the scan starting one lag late
FIRST_TAU_Three == 2 + 1

\* the first lag the scan of step 3 looks at
FIRST_TAU == 2

RECURSIVE AbsoluteThresholdFrom(_, _, _)
\* the scan of step 3 from lag tau on
AbsoluteThresholdFrom(c, th, tau) ==
    IF tau >= Length(c) THEN None
    ELSE IF FLess(At(c, tau), th) THEN LocalMinimum(c, tau)
    ELSE AbsoluteThresholdFrom(c, th, tau + 1)

\* Step 3: tau_estimate
AbsoluteThreshold(c, th) == AbsoluteThresholdFrom(c, th, FIRST_TAU)

\* the denominator of step 4
Denominator(c, tau) ==
    FSub(FSub(FMul(F(2), At(c, tau)), At(c, tau + 1)), At(c, tau - 1))

\* the correction divided by denominator, not by 2.0 * denominator
ParabolicInterpolation_FullStep(c, tau) ==
    IF tau > 0 /\ tau < Length(c) - 1
    THEN IF AboveEpsilon(FAbs(Denominator(c, tau)))
         THEN FAdd(F(tau), FDiv(FSub(At(c, tau + 1), At(c, tau - 1)), Denominator(c, tau)))
         ELSE F(tau)
    ELSE F(tau)

\* Step 4: better_tau
ParabolicInterpolation(c, tau) ==
    IF tau > 0 /\ tau < Length(c) - 1
    THEN IF AboveEpsilon(FAbs(Denominator(c, tau)))
         THEN FAdd(F(tau), FDiv(FSub(At(c, tau + 1), At(c, tau - 1)),
                                FMul(F(2), Denominator(c, tau))))
         ELSE F(tau)
    ELSE F(tau)

\* half_buffer_size - 1 is a usize; cmndf[tau - 1], cmndf[tau], cmndf[tau + 1]
Step4InBounds(c, tau) ==
    /\ Length(c) - 1 >= 0
    /\ (tau > 0 /\ tau < Length(c) - 1) => {tau - 1, tau, tau + 1} \subseteq DOMAIN c

\* the upper limit forgotten
OutOfRange_NoUpperLimit(frequency) == FLess(frequency, F(MIN_FREQUENCY))

\* if frequency < MIN_FREQUENCY || frequency > MAX_FREQUENCY { return -1.0 }
OutOfRange(frequency) ==
    FLess(frequency, F(MIN_FREQUENCY)) \/ FLess(F(MAX_FREQUENCY), frequency)

\* the frequency calculation and its validation
ValidateFrequency(sr, bt) ==
    IF OutOfRange(FDiv(sr, bt)) THEN NO_PITCH ELSE FDiv(sr, bt)

\* the function as a whole: the steps above in source order
detect_pitch_with_threshold(s, sr, th) ==
    IF TooShort(Length(s)) THEN NO_PITCH
    ELSE IF TooQuiet(calculate_rms(s)) THEN NO_PITCH
    ELSE LET c == CumulativeMeanNormalizedDifference(DifferenceFunction(s))
             t == AbsoluteThreshold(c, th)
         IN IF t = None THEN NO_PITCH
            ELSE ValidateFrequency(sr, ParabolicInterpolation(c, t))

\* ------------------------------------------------------ get_pitch_clarity
\* if buffer_size < 2 { return 0.0 }
ClarityTooShort(buffer_size) == buffer_size < 2

\* the energy compared with 0.0
NegligibleEnergy_OnlyNegative(zl) == FLess(zl, Zero)

\* if zero_lag_correlation < f32::EPSILON { return 0.0 }
NegligibleEnergy(zl) == BelowEpsilon(zl)

RECURSIVE Correlation(_, _, _)
\* the inner loop over i in 0..n: correlation += samples[i] * samples[i + tau]
Correlation(s, tau, n) ==
    IF n = 0 THEN Zero
    ELSE FAdd(Correlation(s, tau, n - 1), FMul(At(s, n - 1), At(s, n - 1 + tau)))

\* let min_tau = (sample_rate / MAX_FREQUENCY) as usize
MinTau(sr) == AsUsize(FDiv(sr, F(MAX_FREQUENCY)))

\* let max_tau = ((sample_rate / MIN_FREQUENCY) as usize).min(half_buffer_size)
MaxTau(s, sr) ==
    IF AsUsize(FDiv(sr, F(MIN_FREQUENCY))) < half_buffer_size(s)
    THEN AsUsize(FDiv(sr, F(MIN_FREQUENCY)))
    ELSE half_buffer_size(s)

RECURSIVE MaxCorrelationUpTo(_, _, _)
\* max_correlation after the iterations for the lags below tau
MaxCorrelationUpTo(s, sr, tau) ==
    IF tau <= MinTau(sr) THEN Zero
    ELSE LET before == MaxCorrelationUpTo(s, sr, tau - 1)
             correlation == Correlation(s, tau - 1, half_buffer_size(s) - (tau - 1))
         IN IF FLess(before, correlation) THEN correlation ELSE before

MaxCorrelation(s, sr) ==
    MaxCorrelationUpTo(s, sr, IF MaxTau(s, sr) > MinTau(sr) THEN MaxTau(s, sr) ELSE MinTau(sr))

\* half_buffer_size - tau is a usize; every samples[i + tau] is inside the buffer
CorrelationInBounds(s, sr) ==
    \A tau \in MinTau(sr)..(MaxTau(s, sr) - 1) :
        /\ half_buffer_size(s) - tau >= 0
        /\ \A i \in 0..(half_buffer_size(s) - tau - 1) : i + tau < Length(s)

\* (max_correlation / zero_lag_correlation).clamp(0.0, 1.0)
Clarity(mc, zl) == FClamp(FDiv(mc, zl), Zero, One)

\* ---------------------------------------------------------------- actions
Init ==
    /\ fn = "none"
    /\ pc = "idle"
    /\ samples = <<>>
    /\ sample_rate = Unset
    /\ threshold = Unset
    /\ rms = Unset
    /\ difference = <<>>
    /\ cmndf = <<>>
    /\ tau_estimate = None
    /\ better_tau = Unset
    /\ zero_lag_correlation = Unset
    /\ max_correlation = Unset
    /\ result = Unset

\* calculate_rms(samples)
CallCalculateRms(s) ==
    /\ samples' = s
    /\ result' = calculate_rms(s)
    /\ fn' = "calculate_rms"
    /\ pc' = "done"
    /\ UNCHANGED <<sample_rate, threshold, rms, difference, cmndf, tau_estimate,
                   better_tau, zero_lag_correlation, max_correlation>>

\* lines 26-37: the length check and the energy gate
EnergyGate(s, f) ==
    /\ samples' = s
    /\ fn' = f
    /\ rms' = IF TooShort(Length(s)) THEN Unset ELSE calculate_rms(s)
    /\ IF TooShort(Length(s)) \/ TooQuiet(rms')
       THEN pc' = "done" /\ result' = NO_PITCH
       ELSE pc' = "step1" /\ result' = Unset
    /\ UNCHANGED <<sample_rate, threshold, difference, cmndf, tau_estimate,
                   better_tau, zero_lag_correlation, max_correlation>>

\* detect_pitch(samples, sample_rate)
CallDetectPitch(s) == EnergyGate(s, "detect_pitch")

\* detect_pitch_with_threshold(samples, sample_rate, threshold)
CallDetectPitchWithThreshold(s) == EnergyGate(s, "detect_pitch_with_threshold")

\* lines 39-48
Step1 ==
    /\ pc = "step1"
    /\ IF Step1InBounds(samples)
       THEN pc' = "step2" /\ difference' = DifferenceFunction(samples)
       ELSE pc' = "panic" /\ difference' = difference
    /\ UNCHANGED <<fn, samples, sample_rate, threshold, rms, cmndf, tau_estimate,
                   better_tau, zero_lag_correlation, max_correlation, result>>

\* lines 50-62
Step2 ==
    /\ pc = "step2"
    /\ IF Step2InBounds(difference)
       THEN pc' = "step3" /\ cmndf' = CumulativeMeanNormalizedDifference(difference)
       ELSE pc' = "panic" /\ cmndf' = cmndf
    /\ UNCHANGED <<fn, samples, sample_rate, threshold, rms, difference, tau_estimate,
                   better_tau, zero_lag_correlation, max_correlation, result>>

\* the thresholds of a call: detect_pitch passes DEFAULT_THRESHOLD
ThresholdsOf(f) ==
    IF f = "detect_pitch" THEN {DEFAULT_THRESHOLD}
    ELSE {Fin(t[1], t[2]) : t \in Thresholds}

\* lines 64-81
Step3 ==
    /\ pc = "step3"
    /\ \E th \in ThresholdsOf(fn) :
        /\ threshold' = th
        /\ tau_estimate' = AbsoluteThreshold(cmndf, th)
    /\ IF tau_estimate' = None
       THEN pc' = "done" /\ result' = NO_PITCH
       ELSE pc' = "step4" /\ result' = result
    /\ UNCHANGED <<fn, samples, sample_rate, rms, difference, cmndf,
                   better_tau, zero_lag_correlation, max_correlation>>

\* lines 83-96
Step4 ==
    /\ pc = "step4"
    /\ IF Step4InBounds(cmndf, tau_estimate)
       THEN pc' = "validate" /\ better_tau' = ParabolicInterpolation(cmndf, tau_estimate)
       ELSE pc' = "panic" /\ better_tau' = better_tau
    /\ UNCHANGED <<fn, samples, sample_rate, threshold, rms, difference, cmndf,
                   tau_estimate, zero_lag_correlation, max_correlation, result>>

\* lines 98-106
Validate ==
    /\ pc = "validate"
    /\ \E sr \in SampleRates :
        /\ sample_rate' = F(sr)
        /\ result' = ValidateFrequency(F(sr), better_tau)
    /\ pc' = "done"
    /\ UNCHANGED <<fn, samples, threshold, rms, difference, cmndf, tau_estimate,
                   better_tau, zero_lag_correlation, max_correlation>>

\* get_pitch_clarity(samples, sample_rate), lines 124-142
CallGetPitchClarity(s) ==
    /\ samples' = s
    /\ fn' = "get_pitch_clarity"
    /\ zero_lag_correlation' =
          IF ClarityTooShort(Length(s)) THEN Unset ELSE SumSquares(s, half_buffer_size(s))
    /\ IF ClarityTooShort(Length(s)) \/ NegligibleEnergy(zero_lag_correlation')
       THEN pc' = "done" /\ result' = Zero
       ELSE pc' = "correlate" /\ result' = Unset
    /\ UNCHANGED <<sample_rate, threshold, rms, difference, cmndf, tau_estimate,
                   better_tau, max_correlation>>

\* lines 144-159
Correlate ==
    /\ pc = "correlate"
    /\ \E sr \in SampleRates :
        /\ sample_rate' = F(sr)
        /\ IF CorrelationInBounds(samples, F(sr))
           THEN /\ pc' = "done"
                /\ max_correlation' = MaxCorrelation(samples, F(sr))
                /\ result' = Clarity(max_correlation', zero_lag_correlation)
           ELSE /\ pc' = "panic"
                /\ UNCHANGED <<max_correlation, result>>
    /\ UNCHANGED <<fn, samples, threshold, rms, difference, cmndf, tau_estimate,
                   better_tau, zero_lag_correlation>>

\* a call of one of the four functions on the buffer s
Call(s) ==
    \/ CallCalculateRms(s)
    \/ CallDetectPitch(s)
    \/ CallDetectPitchWithThreshold(s)
    \/ CallGetPitchClarity(s)

\* a call on a short buffer: every buffer over Amplitudes / Units
ShortCall ==
    /\ pc = "idle"
    /\ \E n \in 0..MaxLen, u \in Units : \E a \in [0..(n - 1) -> Amplitudes] :
           Call(Buffer(n, u, a))

\* a call on a long buffer: a repeated pattern with one sample changed
LongCall ==
    /\ pc = "idle"
    /\ \E n \in (MaxLen + 1)..MaxLongLen, P \in 2..MaxPeriod :
           \E p \in [0..(P - 1) -> Amplitudes], j \in 0..(n - 1), v \in Amplitudes :
              Call(LongBuffer(n, P, p, j, v))

\* a call on a sine wave with four samples per period
SineCall ==
    /\ pc = "idle"
    /\ \E n \in (MaxLongLen + 1)..MaxSineLen : Call(generate_sine_wave(n))

Next ==
    \/ ShortCall
    \/ LongCall
    \/ SineCall
    \/ Step1
    \/ Step2
    \/ Step3
    \/ Step4
    \/ Validate
    \/ Correlate

Spec == Init /\ [][Next]_vars

\* ------------------------------------------------------------ properties
DetectFns == {"detect_pitch", "detect_pitch_with_threshold"}

\* a < b and a <= b for finite a, b, by cross multiplication
Lt(a, b) == a.n * b.d < b.n * a.d
Le(a, b) == a.n * b.d <= b.n * a.d

\* the common denominator of the samples of s, and their squares summed over it
Denom(s) == IF \E i \in DOMAIN s : s[i].d # 1 THEN CHOOSE u \in {s[i].d : i \in DOMAIN s} : u # 1 ELSE 1
RECURSIVE SquaresOver(_, _)
SquaresOver(s, I) ==
    IF I = {} THEN 0
    ELSE LET i == CHOOSE x \in I : TRUE
         IN s[i].n * s[i].n * ((Denom(s) \div s[i].d) * (Denom(s) \div s[i].d))
            + SquaresOver(s, I \ {i})

\* the call found a lag and went on to the frequency check
LagFound == fn \in DetectFns /\ tau_estimate # None
ThresholdInUnitInterval == IsFin(threshold) /\ Lt(Zero, threshold) /\ Lt(threshold, One)

\* C1: a finished detect_pitch / detect_pitch_with_threshold call returns exactly
\* -1.0 or a frequency f with 60 <= f <= 2000; when a lag passed the threshold
\* search and sample_rate / better_tau is below 60 or above 2000, it returns -1.0.
C1_ResultIsSentinelOrInBand ==
    (pc = "done" /\ fn \in DetectFns) =>
        /\ \/ result = NO_PITCH
           \/ /\ IsFin(result)
              /\ MIN_FREQUENCY * result.d <= result.n
              /\ result.n <= MAX_FREQUENCY * result.d
        /\ (tau_estimate # None /\ better_tau.n > 0
              /\ \/ sample_rate.n * better_tau.d < MIN_FREQUENCY * better_tau.n
                 \/ sample_rate.n * better_tau.d > MAX_FREQUENCY * better_tau.n)
           => result = NO_PITCH
        /\ (tau_estimate # None /\ better_tau.n <= 0) => result = NO_PITCH

\* a lag passed the threshold search and the frequency was rejected as too high
C1_Witness ==
    /\ pc = "done" /\ LagFound /\ result = NO_PITCH
    /\ better_tau.n > 0
    /\ sample_rate.n * better_tau.d > MAX_FREQUENCY * better_tau.n

\* C2: a finished detect call on a buffer of fewer than 2 samples, or whose mean
\* square over the full buffer is below 0.01^2, returned exactly -1.0.
C2_EnergyGate ==
    (pc = "done" /\ fn \in DetectFns
       /\ \/ Length(samples) < 2
          \/ 10000 * SquaresOver(samples, DOMAIN samples)
               < Length(samples) * Denom(samples) * Denom(samples))
    => result = NO_PITCH

\* a quiet buffer that is not silent: period 2, amplitude 0.01, one sample zero
C2_Witness ==
    /\ pc = "done" /\ fn \in DetectFns /\ Length(samples) = 6
    /\ Denom(samples) = 100
    /\ \A i \in 0..4 : samples[i] = Fin(IF i % 2 = 0 THEN 1 ELSE -1, 100)
    /\ samples[5] = Zero
    /\ result = NO_PITCH

\* C3: get_pitch_clarity returns a value in [0, 1], and exactly 0.0 when the sum
\* of the squares of the first floor(N/2) samples is below f32::EPSILON (which
\* covers the buffers of length 0 and 1).
C3_ClarityInUnitInterval ==
    (pc = "done" /\ fn = "get_pitch_clarity") =>
        /\ IsFin(result) /\ 0 <= result.n /\ result.n <= result.d
        /\ (EPSILON_DEN * SquaresOver(samples, 0..(half_buffer_size(samples) - 1))
              < Denom(samples) * Denom(samples))
           => result = Zero

\* a clarity strictly between 0 and 1
C3_Witness ==
    /\ pc = "done" /\ fn = "get_pitch_clarity"
    /\ IsFin(result) /\ 0 < result.n /\ result.n < result.d

C5_RmsIsRootOfMeanSquare ==
    (pc = "done" /\ fn = "calculate_rms") =>
        LET N == Length(samples)
            S == SquaresOver(samples, DOMAIN samples)
            D == Denom(samples)
        IN /\ N = 0 => result = Zero
           /\ N > 0 =>
                /\ result.k \in {"fin", "sqrt"}
                /\ result.n >= 0 /\ result.d > 0
                /\ result.k = "fin" => result.n * result.n * N * D * D = S * result.d * result.d
                /\ result.k = "sqrt" => result.n * N * D * D = S * result.d
           /\ (N > 0 /\ \A i \in DOMAIN samples : samples[i] \in {F(1), F(-1)})
                => result = One

\* calculate_rms([1, -1, 1, -1]) = 1.0
C5_Witness ==
    /\ pc = "done" /\ fn = "calculate_rms"
    /\ samples = [i \in 0..3 |-> F(IF i % 2 = 0 THEN 1 ELSE -1)]
    /\ result = One

\* C6: for a pure sine wave of frequency f in [60, 2000] sampled at rate r, in a
\* buffer of a few periods, detect_pitch returns a value within 5 Hz of f.  The
\* sine waves here have four samples per period (f = r / 4) and three periods
\* or more.
C6_SineWithinFiveHz ==
    (fn = "detect_pitch" /\ pc = "done" /\ Length(samples) >= 12
       /\ samples = generate_sine_wave(Length(samples))
       /\ IsFin(sample_rate)
       /\ MIN_FREQUENCY * 4 <= sample_rate.n /\ sample_rate.n <= MAX_FREQUENCY * 4)
    => /\ result # NO_PITCH
       /\ Lt(FAbs(FSub(result, Fin(sample_rate.n, 4))), F(5))

\* the lags of [2, H) whose cmndf is below the threshold
BelowThreshold == {t \in 2..(Length(cmndf) - 1) : Lt(cmndf[t], threshold)}
FirstBelow == CHOOSE t \in BelowThreshold : \A u \in BelowThreshold : t <= u

\* C7: after the threshold search, if some lag in [2, H) has cmndf < threshold and
\* t0 is the smallest, the selected lag t has t0 <= t <= H - 1, cmndf falls
\* strictly on every step from t0 to t, and t = H - 1 or cmndf[t + 1] >= cmndf[t];
\* lags 0 and 1 are never selected; with no such lag the call returned -1.0.
C7_BottomOfFirstDip ==
    (fn \in DetectFns /\ pc \in {"step4", "validate", "done"} /\ IsFin(threshold)) =>
        IF BelowThreshold = {}
        THEN tau_estimate = None /\ pc = "done" /\ result = NO_PITCH
        ELSE /\ FirstBelow <= tau_estimate
             /\ tau_estimate <= Length(cmndf) - 1
             /\ tau_estimate \notin {0, 1}
             /\ \A t \in FirstBelow..(tau_estimate - 1) : Lt(cmndf[t + 1], cmndf[t])
             /\ \/ tau_estimate = Length(cmndf) - 1
                \/ Le(cmndf[tau_estimate], cmndf[tau_estimate + 1])

\* the search went down from the first lag below the threshold and stopped
\* before the end of the array
C7_Witness ==
    /\ fn \in DetectFns /\ pc = "done" /\ IsFin(threshold)
    /\ BelowThreshold # {}
    /\ FirstBelow < tau_estimate
    /\ tau_estimate < Length(cmndf) - 1

\* the factors a buffer is scaled by
Factors == {F(-3), Fin(1, 50)}
Scaled(s, c) == [i \in DOMAIN s |-> FMul(s[i], c)]
PassesGate(s) == ~TooShort(Length(s)) /\ ~TooQuiet(calculate_rms(s))

C9_InterpolationIsStable ==
    (LagFound /\ pc \in {"validate", "done"} /\ ThresholdInUnitInterval) =>
        LET t == tau_estimate
            s0 == cmndf[t - 1]
            s1 == cmndf[t]
        IN /\ cmndf[1] = One
           /\ Lt(s1, s0)
           /\ t < Length(cmndf) - 1 =>
                LET s2 == cmndf[t + 1]
                    den == FSub(FSub(FAdd(s1, s1), s2), s0)
                IN /\ Le(s1, s2)
                   /\ den.n < 0
                   /\ Le(FAbs(FSub(better_tau, F(t))), Fin(1, 2))
           /\ t >= Length(cmndf) - 1 => better_tau = F(t)
           /\ IsFin(better_tau) /\ Le(Fin(3, 2), better_tau)

\* the search went down to an interior lag and the interpolation moved it
C9_Witness ==
    /\ LagFound /\ pc = "done" /\ ThresholdInUnitInterval
    /\ FirstBelow < tau_estimate
    /\ tau_estimate < Length(cmndf) - 1
    /\ better_tau # F(tau_estimate)

IsPeriodic(s, P) == \A i \in DOMAIN s : (i + P) \in DOMAIN s => s[i + P] = s[i]
NonConstant(s) == \E i, j \in DOMAIN s : s[i] # s[j]
\* the periods the claim is about: 2 <= P < floor(N/2)
Periods(s) == {P \in 2..(half_buffer_size(s) - 1) : IsPeriodic(s, P)}

\* C10: for a non-constant buffer of period P, 2 <= P < floor(N/2), that passed
\* the energy gate: difference[P] = 0 and cmndf[P] = 0; for a threshold in (0, 1)
\* the search finds a lag, the lag is at most P, and the call returns -1.0 only
\* from the frequency range check.
C10_PeriodicBufferFindsLag ==
    (fn \in DetectFns /\ NonConstant(samples)) =>
        \A P \in Periods(samples) :
            /\ pc \in {"step2", "step3", "step4", "validate"} => difference[P] = Zero
            /\ pc \in {"step3", "step4", "validate"} => cmndf[P] = Zero
            /\ (pc \in {"step4", "validate", "done"} /\ ThresholdInUnitInterval) =>
                  /\ tau_estimate # None
                  /\ tau_estimate <= P
                  /\ pc = "done" =>
                        /\ IsFin(sample_rate)
                        /\ result = NO_PITCH =>
                              \/ Lt(FDiv(sample_rate, better_tau), F(MIN_FREQUENCY))
                              \/ Lt(F(MAX_FREQUENCY), FDiv(sample_rate, better_tau))

\* a buffer of period 3 whose search selected lag 3 and returned a pitch
C10_Witness ==
    /\ fn \in DetectFns /\ pc = "done" /\ NonConstant(samples)
    /\ 3 \in Periods(samples) /\ 2 \notin Periods(samples)
    /\ ThresholdInUnitInterval
    /\ tau_estimate = 3
    /\ result # NO_PITCH
====
